---- MODULE Spec2Model ----
(***************************************************************************)
(* PBX telephone exchange (hw5): the registry (pbx.c), the telephone unit  *)
(* state machine (tu.c), the per-connection service thread (server.c) and  *)
(* the shutdown path (main.c, pbx.c), as an interleaving of threads.       *)
(*                                                                         *)
(* A TU is named by the connection that created it (one tu_init per        *)
(* service thread); 0 is the NULL pointer.  A semaphore used as a mutex is *)
(* 0 when free and otherwise the connection whose thread did the P().      *)
(* A step is one P() together with the code up to the next blocking P() or *)
(* unlocked read: a lock acquire moves right, a release moves left and the *)
(* code between touches only what the held lock protects.                  *)
(***************************************************************************)
EXTENDS Integers, FiniteSets, Sequences, TLC

\* Bounds of the model.
NConn == 3          \* TUs (connections) of the model
MaxAccept == 2      \* connections main() accepts in Spec
MaxExtensions == 3  \* largest PBX_MAX_EXTENSIONS tried
MaxRef == 3         \* dial is not offered to a TU whose ref_count has reached it

Conns == 1..NConn
Fds == 1..NConn
NULL == 0

States == {"ON_HOOK", "RINGING", "DIAL_TONE", "RING_BACK", "BUSY_SIGNAL",
           "CONNECTED", "ERROR"}
Paired == {"RINGING", "RING_BACK", "CONNECTED"}

VARIABLES
  max_ext,     \* PBX_MAX_EXTENSIONS of this build (pbx.h is not in the sources)
  registry,    \* pbx->PBX_REGISTRY: slot -> TU or NULL
  pbx_mutex,   \* pbx->mutex
  fdtab,       \* the process's descriptor table: fd -> connection it is open on, or 0
  sd,          \* the thread running terminate()/pbx_shutdown, or the process's end
  sd_i,        \* pbx_shutdown's loop index i
  sd_busy,     \* pbx_shutdown's `finished == -1`
  pc,          \* position of each service thread
  fd,          \* connfd of the thread, and tu->fd of its TU
  state,       \* tu->state
  target,      \* tu->target
  ref_count,   \* tu->ref_count
  mutex,       \* tu->mutex
  destroyed,   \* the TU went through Sem_destroy/close/free
  callee,      \* tu_dial's parameter `target`
  slot,        \* the registry index i found by pbx_unregister
  mode,        \* who called tu_hangup: the service loop or a branch of pbx_unregister
  shut,        \* shutdown(fd, SHUT_RDWR) was applied to the connection's socket
  last,        \* the last state line written to the connection
  chat,        \* the chat line the step just taken wrote to the connection
  client,      \* the command lines the connection's client still sends
  wrote        \* the state lines the step just taken wrote: <<connection, line>>

vars == <<max_ext, registry, pbx_mutex, fdtab, sd, sd_i, sd_busy, pc, fd, state,
          target, ref_count, mutex, destroyed, callee, slot, mode, shut, last, chat,
          client, wrote>>

tuvars == <<state, target, ref_count, mutex, destroyed>>
sdvars == <<sd, sd_i, sd_busy>>

Running == sd \notin {"exited", "crashed"}

Slots == 1..max_ext

\* ---------------------------------------------------------------- output

\* The line tu.c prints for a TU in state s (the dprintf chains of tu.c).
StateLine(s, ownfd, peerfd) ==
  CASE s = "ON_HOOK"     -> <<"ON HOOK", ownfd>>
    [] s = "RINGING"     -> <<"RINGING", 0>>
    [] s = "DIAL_TONE"   -> <<"DIAL TONE", 0>>
    [] s = "RING_BACK"   -> <<"RING BACK", 0>>
    [] s = "BUSY_SIGNAL" -> <<"BUSY SIGNAL", 0>>
    [] s = "CONNECTED"   -> <<"CONNECTED", peerfd>>
    [] OTHER             -> <<"ERROR", 0>>

NoLine == <<"", 0>>

\* No chat line was written by the step, and no command line was read.
NoChat == [c \in Conns |-> ""]
Quiet == chat' = NoChat /\ UNCHANGED client

\* A client is a sequence of command lines <<verb, extension>>; a first line
\* <<"*", 0>> stands for a client that can send any line at any time.
AnyLine == <<"*", 0>>
AnyClient == <<AnyLine>>

\* read_client_msg (server.c:15-71) returns the line <<verb, ext>>.
Reads(c, verb, ext) ==
  /\ client[c] # <<>>
  /\ Head(client[c]) \in {AnyLine, <<verb, ext>>}
  /\ client' = IF Head(client[c]) = AnyLine THEN client
                ELSE [client EXCEPT ![c] = Tail(@)]
  /\ chat' = NoChat

\* dprintf(f, line): the line reaches the connection descriptor f is open on;
\* a write to a closed descriptor or a shut-down socket fails and is ignored.
Receiver(f) ==
  IF f \in Fds /\ fdtab[f] # 0 /\ ~shut[fdtab[f]] THEN fdtab[f] ELSE 0

dprintf(lst, f, line) ==
  IF Receiver(f) # 0 THEN [lst EXCEPT ![Receiver(f)] = line] ELSE lst

\* What one dprintf(f, line) of a state line adds to the lines of the step.
Sent(f, line) == IF Receiver(f) # 0 THEN <<<<Receiver(f), line>>>> ELSE <<>>

\* The step writes no state line.
Silent == wrote' = <<>>

\* tu->target->fd
PeerFd(t) == IF target[t] = NULL THEN 0 ELSE fd[target[t]]

\* ---------------------------------------------------------------- Init

Init ==
  /\ max_ext \in 1..MaxExtensions
  /\ registry = [i \in 1..MaxExtensions |-> NULL]
  /\ pbx_mutex = 0
  /\ fdtab = [f \in Fds |-> 0]
  /\ sd = "idle"
  /\ sd_i = 0
  /\ sd_busy = FALSE
  /\ pc = [c \in Conns |-> "new"]
  /\ fd = [c \in Conns |-> 0]
  /\ state = [c \in Conns |-> "ON_HOOK"]
  /\ target = [c \in Conns |-> NULL]
  /\ ref_count = [c \in Conns |-> 0]
  /\ mutex = [c \in Conns |-> 0]
  /\ destroyed = [c \in Conns |-> FALSE]
  /\ callee = [c \in Conns |-> NULL]
  /\ slot = [c \in Conns |-> 0]
  /\ mode = [c \in Conns |-> "svc"]
  /\ shut = [c \in Conns |-> FALSE]
  /\ last = [c \in Conns |-> NoLine]
  /\ chat = NoChat
  /\ client = [c \in Conns |-> AnyClient]
  /\ wrote = <<>>

\* ---------------------------------------------------------------- main.c

\* Accept() hands out the lowest descriptor that is not open.
LowestFreeFd == CHOOSE f \in Fds : fdtab[f] = 0 /\ \A g \in Fds : g < f => fdtab[g] # 0

\* main(): Accept, then Pthread_create(pbx_client_service).  SIGHUP's handler
\* runs terminate() on the main thread, so nothing is accepted after it.
Accept(c) ==
  /\ Running /\ sd = "idle"
  /\ pc[c] = "new" /\ c <= MaxAccept
  /\ \A b \in Conns : b < c => pc[b] # "new"
  /\ \E f \in Fds : fdtab[f] = 0
  /\ fdtab' = [fdtab EXCEPT ![LowestFreeFd] = c]
  /\ fd' = [fd EXCEPT ![c] = LowestFreeFd]
  /\ pc' = [pc EXCEPT ![c] = "start"]
  /\ UNCHANGED <<max_ext, registry, pbx_mutex, sdvars, tuvars, callee, slot, mode,
                 shut, last>>
  /\ Quiet
  /\ Silent

\* ---------------------------------------------------------------- helpers

close(tab, f) == IF f \in Fds THEN [tab EXCEPT ![f] = 0] ELSE tab

\* The connection descriptor f was open on has ended: nothing written to it is
\* observed any more.
Forget(lst, f, none) ==
  IF f \in Fds /\ fdtab[f] # 0 THEN [lst EXCEPT ![fdtab[f]] = none] ELSE lst

\* read(connfd) can return a command line: the descriptor is still this
\* connection's socket and the socket has not been shut down.
CanRead(c) == fd[c] \in Fds /\ fdtab[fd[c]] = c /\ ~shut[c]

\* Where tu_hangup returns to: the service loop (server.c:141) or one of the
\* two calls in pbx_unregister (pbx.c:120, pbx.c:124).
Ret(c) ==
  CASE mode[c] = "svc"         -> "read"
    [] mode[c] = "unreg_unref" -> "unreg_unref"
    [] OTHER                   -> "unreg_clear"

\* ---------------------------------------------------------------- tu_ref / tu_unref

\* tu_ref(x): P(x), ref_count++, V(x).
tu_ref(c, x, next) ==
  /\ x # NULL
  /\ mutex[x] = 0
  /\ ref_count' = [ref_count EXCEPT ![x] = @ + 1]
  /\ pc' = [pc EXCEPT ![c] = next]

\* tu_unref(x), tu.c:58-62: P(x), ref_count--, V(x).
tu_unref_dec(c, x, next) ==
  /\ x # NULL
  /\ mutex[x] = 0
  /\ ref_count' = [ref_count EXCEPT ![x] = @ - 1]
  /\ pc' = [pc EXCEPT ![c] = next]

\* tu_unref(x), tu.c:65-69: the count is read again after the V(), outside the
\* lock; on 0 the semaphore is destroyed, tu->fd is closed and the TU is freed.
Freeing(x) == x # NULL /\ ref_count[x] = 0

tu_unref_free(x) ==
  /\ destroyed' = IF Freeing(x) THEN [destroyed EXCEPT ![x] = TRUE] ELSE destroyed
  /\ fdtab' = IF Freeing(x) THEN close(fdtab, fd[x]) ELSE fdtab
  /\ last' = IF Freeing(x) THEN Forget(last, fd[x], NoLine) ELSE last

\* ---------------------------------------------------------------- tu_pickup

\* tu.c:275-303, and 305 up to the P() on the peer.
tu_pickup(c) ==
  /\ Running /\ pc[c] = "read" /\ CanRead(c)
  /\ mutex[c] = 0
  /\ state[c] = "CONNECTED" => target[c] # NULL
  /\ IF state[c] = "RINGING"
       THEN /\ mutex' = [mutex EXCEPT ![c] = c]
            /\ pc' = [pc EXCEPT ![c] = "pickup_peer"]
            /\ UNCHANGED <<state, last>>
            /\ Silent
       ELSE /\ state' = [state EXCEPT ![c] = IF @ = "ON_HOOK" THEN "DIAL_TONE" ELSE @]
            /\ last' = dprintf(last, fd[c], StateLine(state'[c], fd[c], PeerFd(c)))
            /\ wrote' = Sent(fd[c], StateLine(state'[c], fd[c], PeerFd(c)))
            /\ UNCHANGED <<mutex, pc>>
  /\ UNCHANGED <<max_ext, registry, pbx_mutex, fdtab, sdvars, fd, target, ref_count,
                 destroyed, callee, slot, mode, shut>>
  /\ Reads(c, "pickup", 0)

\* tu.c:306-313 without the V() of tu.c:312: tu_pickup returns with the peer
\* locked.
tu_pickup_peer_without_V(c) ==
  /\ Running /\ pc[c] = "pickup_peer"
  /\ target[c] # NULL /\ mutex[target[c]] = 0
  /\ state' = [state EXCEPT ![c] = "CONNECTED", ![target[c]] = "CONNECTED"]
  /\ last' = dprintf(dprintf(last, fd[c], <<"CONNECTED", fd[target[c]]>>),
                     fd[target[c]], <<"CONNECTED", fd[c]>>)
  /\ wrote' = Sent(fd[c], <<"CONNECTED", fd[target[c]]>>)
               \o Sent(fd[target[c]], <<"CONNECTED", fd[c]>>)
  /\ mutex' = [mutex EXCEPT ![c] = 0, ![target[c]] = c]
  /\ pc' = [pc EXCEPT ![c] = "read"]
  /\ UNCHANGED <<max_ext, registry, pbx_mutex, fdtab, sdvars, fd, target, ref_count,
                 destroyed, callee, slot, mode, shut>>
  /\ Quiet

\* tu.c:306-313: both TUs become CONNECTED under both locks.
tu_pickup_peer(c) ==
  /\ Running /\ pc[c] = "pickup_peer"
  /\ target[c] # NULL /\ mutex[target[c]] = 0
  /\ state' = [state EXCEPT ![c] = "CONNECTED", ![target[c]] = "CONNECTED"]
  /\ last' = dprintf(dprintf(last, fd[c], <<"CONNECTED", fd[target[c]]>>),
                     fd[target[c]], <<"CONNECTED", fd[c]>>)
  /\ wrote' = Sent(fd[c], <<"CONNECTED", fd[target[c]]>>)
               \o Sent(fd[target[c]], <<"CONNECTED", fd[c]>>)
  /\ mutex' = [mutex EXCEPT ![c] = 0]
  /\ pc' = [pc EXCEPT ![c] = "read"]
  /\ UNCHANGED <<max_ext, registry, pbx_mutex, fdtab, sdvars, fd, target, ref_count,
                 destroyed, callee, slot, mode, shut>>
  /\ Quiet

\* ---------------------------------------------------------------- tu_hangup

\* The state tu_hangup gives the peer: tu.c:353 and tu.c:370.
PeerAfterHangup(s) == IF s = "RING_BACK" THEN "ON_HOOK" ELSE "DIAL_TONE"

\* tu.c:346, then 382-391, or 349/366 up to the P() on the peer.
tu_hangup(c) ==
  /\ Running
  /\ IF pc[c] = "read" THEN CanRead(c) ELSE pc[c] = "unreg_hangup"
  /\ mutex[c] = 0
  /\ IF state[c] \in Paired
       THEN /\ mutex' = [mutex EXCEPT ![c] = c]
            /\ pc' = [pc EXCEPT ![c] = "hangup_peer"]
            /\ UNCHANGED <<state, last>>
            /\ Silent
       ELSE /\ state' = [state EXCEPT ![c] = "ON_HOOK"]
            /\ last' = IF state[c] = "ON_HOOK" THEN last
                       ELSE dprintf(last, fd[c], <<"ON HOOK", fd[c]>>)
            /\ wrote' = IF state[c] = "ON_HOOK" THEN <<>>
                        ELSE Sent(fd[c], <<"ON HOOK", fd[c]>>)
            /\ pc' = [pc EXCEPT ![c] = Ret(c)]
            /\ UNCHANGED mutex
  /\ UNCHANGED <<max_ext, registry, pbx_mutex, fdtab, sdvars, fd, target, ref_count,
                 destroyed, callee, slot, mode, shut>>
  /\ IF pc[c] = "read" THEN Reads(c, "hangup", 0) ELSE Quiet

\* tu.c:351-358 and 368-375: both states, the peer's back pointer, both lines,
\* then V() on the peer; the caller's lock stays held.
tu_hangup_peer(c) ==
  /\ Running /\ pc[c] = "hangup_peer"
  /\ target[c] # NULL /\ mutex[target[c]] = 0
  /\ state' = [state EXCEPT ![c] = "ON_HOOK", ![target[c]] = PeerAfterHangup(state[c])]
  /\ target' = [target EXCEPT ![target[c]] = NULL]
  /\ last' = dprintf(dprintf(last, fd[c], <<"ON HOOK", fd[c]>>), fd[target[c]],
                     StateLine(PeerAfterHangup(state[c]), fd[target[c]], 0))
  /\ wrote' = Sent(fd[c], <<"ON HOOK", fd[c]>>)
               \o Sent(fd[target[c]],
                       StateLine(PeerAfterHangup(state[c]), fd[target[c]], 0))
  /\ pc' = [pc EXCEPT ![c] = "hangup_unref_peer"]
  /\ UNCHANGED <<max_ext, registry, pbx_mutex, fdtab, sdvars, fd, ref_count, mutex,
                 destroyed, callee, slot, mode, shut>>
  /\ Quiet

\* tu.c:359/376: tu_unref(tu->target), the decrement.
tu_hangup_unref_peer(c) ==
  /\ Running /\ pc[c] = "hangup_unref_peer"
  /\ tu_unref_dec(c, target[c], "hangup_free_peer")
  /\ UNCHANGED <<max_ext, registry, pbx_mutex, fdtab, sdvars, fd, state, target, mutex,
                 destroyed, callee, slot, mode, shut, last>>
  /\ Quiet
  /\ Silent

\* tu.c:359-361/376-378: tu_unref's test of the peer's count, then
\* tu->target = NULL and V() on the caller.
tu_hangup_free_peer(c) ==
  /\ Running /\ pc[c] = "hangup_free_peer"
  /\ tu_unref_free(target[c])
  /\ target' = [target EXCEPT ![c] = NULL]
  /\ mutex' = [mutex EXCEPT ![c] = 0]
  /\ pc' = [pc EXCEPT ![c] = "hangup_unref_self"]
  /\ UNCHANGED <<max_ext, registry, pbx_mutex, sdvars, fd, state, ref_count,
                 callee, slot, mode, shut>>
  /\ Quiet
  /\ Silent

\* tu.c:362/379: tu_unref(tu), the decrement.
tu_hangup_unref_self(c) ==
  /\ Running /\ pc[c] = "hangup_unref_self"
  /\ tu_unref_dec(c, c, "hangup_free_self")
  /\ UNCHANGED <<max_ext, registry, pbx_mutex, fdtab, sdvars, fd, state, target, mutex,
                 destroyed, callee, slot, mode, shut, last>>
  /\ Quiet
  /\ Silent

\* tu.c:362-363/379-380: tu_unref's test of the caller's count, then return.
tu_hangup_free_self(c) ==
  /\ Running /\ pc[c] = "hangup_free_self"
  /\ tu_unref_free(c)
  /\ pc' = [pc EXCEPT ![c] = Ret(c)]
  /\ UNCHANGED <<max_ext, registry, pbx_mutex, sdvars, fd, state, target, ref_count,
                 mutex, callee, slot, mode, shut>>
  /\ Quiet
  /\ Silent

\* ---------------------------------------------------------------- pbx_dial / tu_dial

\* The extensions a client can dial: a descriptor number, or 0 for a number
\* no TU carries (atoi of anything else).
Exts == 0..NConn

\* tu_fileno(tu), tu.c:81-86.
tu_fileno(x) == IF x = NULL THEN -1 ELSE fd[x]

\* pbx.c:151-160: the TU in the first slot whose tu_fileno equals ext, else NULL.
Lookup(ext) ==
  LET hits == {j \in Slots : tu_fileno(registry[j]) = ext}
  IN  IF hits = {} THEN NULL
      ELSE registry[CHOOSE j \in hits : \A k \in hits : j <= k]

\* tu.c:155-196, run under the registry lock taken at pbx.c:146: P(tu); the
\* NULL target and the tu == target cases end here (and pbx_dial does V(pbx)),
\* any other target goes on to P(target) with both locks held.
tu_dial(c, t) ==
  /\ mutex[c] = 0
  /\ (t = NULL /\ state[c] = "CONNECTED") => target[c] # NULL
  /\ IF t = NULL
       THEN /\ state' = [state EXCEPT ![c] = IF @ = "DIAL_TONE" THEN "ERROR" ELSE @]
            /\ last' = dprintf(last, fd[c], StateLine(state'[c], fd[c], PeerFd(c)))
            /\ wrote' = Sent(fd[c], StateLine(state'[c], fd[c], PeerFd(c)))
            /\ UNCHANGED <<mutex, pbx_mutex, pc, callee>>
       ELSE IF t = c
       THEN /\ state' = [state EXCEPT ![c] = "BUSY_SIGNAL"]
            /\ last' = dprintf(last, fd[c], <<"BUSY SIGNAL", 0>>)
            /\ wrote' = Sent(fd[c], <<"BUSY SIGNAL", 0>>)
            /\ UNCHANGED <<mutex, pbx_mutex, pc, callee>>
       ELSE /\ mutex' = [mutex EXCEPT ![c] = c]
            /\ pbx_mutex' = c
            /\ callee' = [callee EXCEPT ![c] = t]
            /\ pc' = [pc EXCEPT ![c] = "dial_target"]
            /\ UNCHANGED <<state, last>>
            /\ Silent

\* pbx.c:146-162: P(pbx), find the caller's slot, resolve ext, call tu_dial.
\* The count guard bounds ref_count, which repeated calls can otherwise raise
\* for ever.
pbx_dial(c) ==
  /\ Running /\ pc[c] = "read" /\ CanRead(c)
  /\ pbx_mutex = 0
  /\ \E ext \in Exts :
       /\ Reads(c, "dial", ext)
       /\ ref_count[c] < MaxRef
       /\ Lookup(ext) # NULL => ref_count[Lookup(ext)] < MaxRef
       /\ IF \E i \in Slots : registry[i] = c
            THEN tu_dial(c, Lookup(ext))
            ELSE UNCHANGED <<state, last, mutex, pbx_mutex, pc, callee>> /\ Silent
  /\ UNCHANGED <<max_ext, registry, fdtab, sdvars, fd, target, ref_count, destroyed,
                 slot, mode, shut>>

\* tu_dial without the test of tu.c:226.
TargetNeverBusy(t) == FALSE

\* tu.c:226 without its test of the target's state.
TargetBusyPeerOnly(t) == target[t] # NULL

\* tu.c:226: the target already has a peer or is not on hook.
TargetBusy(t) == IF target[t] # NULL THEN TRUE ELSE state[t] # "ON_HOOK"

\* tu.c:199-241: P(target); no effect outside DIAL_TONE, BUSY SIGNAL on a busy
\* target, otherwise the two become peers and V(tu) leaves the target locked.
tu_dial_target(c) ==
  /\ Running /\ pc[c] = "dial_target"
  /\ mutex[callee[c]] = 0
  /\ state[c] = "CONNECTED" => target[c] # NULL
  /\ IF state[c] # "DIAL_TONE"
       THEN /\ last' = dprintf(last, fd[c], StateLine(state[c], fd[c], PeerFd(c)))
            /\ wrote' = Sent(fd[c], StateLine(state[c], fd[c], PeerFd(c)))
            /\ mutex' = [mutex EXCEPT ![c] = 0]
            /\ pbx_mutex' = 0
            /\ pc' = [pc EXCEPT ![c] = "read"]
            /\ UNCHANGED <<state, target>>
       ELSE IF TargetBusy(callee[c])
       THEN /\ state' = [state EXCEPT ![c] = "BUSY_SIGNAL"]
            /\ last' = dprintf(last, fd[c], <<"BUSY SIGNAL", 0>>)
            /\ wrote' = Sent(fd[c], <<"BUSY SIGNAL", 0>>)
            /\ mutex' = [mutex EXCEPT ![c] = 0]
            /\ pbx_mutex' = 0
            /\ pc' = [pc EXCEPT ![c] = "read"]
            /\ UNCHANGED target
       ELSE /\ target' = [target EXCEPT ![c] = callee[c], ![callee[c]] = c]
            /\ state' = [state EXCEPT ![c] = "RING_BACK", ![callee[c]] = "RINGING"]
            /\ last' = dprintf(dprintf(last, fd[c], <<"RING BACK", 0>>),
                               fd[callee[c]], <<"RINGING", 0>>)
            /\ wrote' = Sent(fd[c], <<"RING BACK", 0>>)
                         \o Sent(fd[callee[c]], <<"RINGING", 0>>)
            /\ mutex' = [mutex EXCEPT ![c] = 0, ![callee[c]] = c]
            /\ pc' = [pc EXCEPT ![c] = "dial_ref_self"]
            /\ UNCHANGED pbx_mutex
  /\ callee' = IF pc'[c] = "read" THEN [callee EXCEPT ![c] = NULL] ELSE callee
  /\ UNCHANGED <<max_ext, registry, fdtab, sdvars, fd, ref_count, destroyed,
                 slot, mode, shut>>
  /\ Quiet

\* tu.c:242-243: tu_ref(tu), then V(target).
tu_dial_ref_self(c) ==
  /\ Running /\ pc[c] = "dial_ref_self"
  /\ tu_ref(c, c, "dial_ref_target")
  /\ mutex' = [mutex EXCEPT ![callee[c]] = 0]
  /\ UNCHANGED <<max_ext, registry, pbx_mutex, fdtab, sdvars, fd, state, target,
                 destroyed, callee, slot, mode, shut, last>>
  /\ Quiet
  /\ Silent

\* tu.c:244-245: tu_ref(target); pbx.c:155: V(pbx).
tu_dial_ref_target(c) ==
  /\ Running /\ pc[c] = "dial_ref_target"
  /\ tu_ref(c, callee[c], "read")
  /\ pbx_mutex' = 0
  /\ callee' = [callee EXCEPT ![c] = NULL]
  /\ UNCHANGED <<max_ext, registry, fdtab, sdvars, fd, state, target, mutex,
                 destroyed, slot, mode, shut, last>>
  /\ Quiet
  /\ Silent

\* ---------------------------------------------------------------- tu_chat

\* The one message text of the model.
Msg == "m"

\* tu.c:424: the line written to the peer.
ChatLine(msg) == "chat " \o msg

\* tu.c:415-421: P(tu); outside CONNECTED V(tu) and return -1, nothing written.
tu_chat(c) ==
  /\ Running /\ pc[c] = "read" /\ CanRead(c)
  /\ mutex[c] = 0
  /\ IF state[c] # "CONNECTED"
       THEN UNCHANGED <<mutex, pc>>
       ELSE /\ mutex' = [mutex EXCEPT ![c] = c]
            /\ pc' = [pc EXCEPT ![c] = "chat_peer"]
  /\ UNCHANGED <<max_ext, registry, pbx_mutex, fdtab, sdvars, fd, state, target,
                 ref_count, destroyed, callee, slot, mode, shut, last>>
  /\ Reads(c, "chat", 0)
  /\ Silent

\* tu.c:423-448: P(peer), the chat line to the peer, the sender's state line.
tu_chat_peer(c) ==
  /\ Running /\ pc[c] = "chat_peer"
  /\ target[c] # NULL /\ mutex[target[c]] = 0
  /\ chat' = IF Receiver(fd[target[c]]) # 0
               THEN [NoChat EXCEPT ![Receiver(fd[target[c]])] = ChatLine(Msg)]
               ELSE NoChat
  /\ UNCHANGED client
  /\ last' = dprintf(last, fd[c], StateLine(state[c], fd[c], PeerFd(c)))
  /\ wrote' = Sent(fd[c], StateLine(state[c], fd[c], PeerFd(c)))
  /\ mutex' = [mutex EXCEPT ![c] = 0]
  /\ pc' = [pc EXCEPT ![c] = "read"]
  /\ UNCHANGED <<max_ext, registry, pbx_mutex, fdtab, sdvars, fd, state, target,
                 ref_count, destroyed, callee, slot, mode, shut>>

\* ---------------------------------------------------------------- pbx_register / pbx_unregister

FreeSlots == {i \in Slots : registry[i] = NULL}

\* server.c:86-93, tu.c:20-31, pbx.c:82-98: tu_init, then under the registry
\* lock the first empty slot takes the TU and "ON HOOK <connfd>" is written;
\* with no empty slot the thread closes connfd and returns.
pbx_register(c) ==
  /\ Running /\ pc[c] = "start"
  /\ pbx_mutex = 0
  /\ state' = [state EXCEPT ![c] = "ON_HOOK"]
  /\ target' = [target EXCEPT ![c] = NULL]
  /\ ref_count' = [ref_count EXCEPT ![c] = 1]
  /\ IF FreeSlots # {}
       THEN /\ registry' = [registry EXCEPT
                              ![CHOOSE i \in FreeSlots : \A k \in FreeSlots : i <= k] = c]
            /\ last' = dprintf(last, fd[c], <<"ON HOOK", fd[c]>>)
            /\ wrote' = Sent(fd[c], <<"ON HOOK", fd[c]>>)
            /\ pc' = [pc EXCEPT ![c] = "read"]
            /\ UNCHANGED fdtab
       ELSE /\ fdtab' = close(fdtab, fd[c])
            /\ last' = Forget(last, fd[c], NoLine)
            /\ Silent
            /\ pc' = [pc EXCEPT ![c] = "exit"]
            /\ UNCHANGED registry
  /\ UNCHANGED <<max_ext, pbx_mutex, sdvars, fd, mutex, destroyed, callee, slot, mode,
                 shut>>
  /\ Quiet

\* server.c:100-103 and 170-176: read_client_msg returns NULL (the client closed,
\* the socket was shut down, or the descriptor is no longer open), the loop is
\* left and connfd closed.
read_eof(c) ==
  /\ Running /\ pc[c] = "read"
  /\ fdtab' = close(fdtab, fd[c])
  /\ last' = Forget(last, fd[c], NoLine)
  /\ pc' = [pc EXCEPT ![c] = "unregister"]
  /\ UNCHANGED <<max_ext, registry, pbx_mutex, sdvars, fd, tuvars, callee, slot, mode,
                 shut>>
  /\ Quiet
  /\ Silent

\* pbx.c:114-119: P(pbx), find the TU's slot, read tu->state (without the TU's
\* lock) to choose between the two calls of tu_hangup.
pbx_unregister(c) ==
  /\ Running /\ pc[c] = "unregister"
  /\ pbx_mutex = 0
  /\ IF \E i \in Slots : registry[i] = c
       THEN /\ pbx_mutex' = c
            /\ slot' = [slot EXCEPT ![c] = CHOOSE i \in Slots : registry[i] = c]
            /\ mode' = [mode EXCEPT ![c] = IF state[c] \notin Paired
                                             THEN "unreg_unref" ELSE "unreg_keep"]
            /\ pc' = [pc EXCEPT ![c] = "unreg_hangup"]
       ELSE /\ pc' = [pc EXCEPT ![c] = "exit"]
            /\ UNCHANGED <<pbx_mutex, slot, mode>>
  /\ UNCHANGED <<max_ext, registry, fdtab, sdvars, fd, tuvars, callee, shut, last>>
  /\ Quiet
  /\ Silent

\* pbx.c:121: tu_unref(tu), the decrement.
pbx_unregister_unref(c) ==
  /\ Running /\ pc[c] = "unreg_unref"
  /\ tu_unref_dec(c, c, "unreg_free")
  /\ UNCHANGED <<max_ext, registry, pbx_mutex, fdtab, sdvars, fd, state, target, mutex,
                 destroyed, callee, slot, mode, shut, last>>
  /\ Quiet
  /\ Silent

\* pbx.c:121: tu_unref's test of the count.
pbx_unregister_free(c) ==
  /\ Running /\ pc[c] = "unreg_free"
  /\ tu_unref_free(c)
  /\ pc' = [pc EXCEPT ![c] = "unreg_clear"]
  /\ UNCHANGED <<max_ext, registry, pbx_mutex, sdvars, fd, state, target, ref_count,
                 mutex, callee, slot, mode, shut>>
  /\ Quiet
  /\ Silent

\* pbx.c:126-128: the slot is emptied, V(pbx); server.c:178: the thread returns.
pbx_unregister_clear(c) ==
  /\ Running /\ pc[c] = "unreg_clear"
  /\ registry' = [registry EXCEPT ![slot[c]] = NULL]
  /\ pbx_mutex' = 0
  /\ slot' = [slot EXCEPT ![c] = 0]
  /\ mode' = [mode EXCEPT ![c] = "svc"]
  /\ pc' = [pc EXCEPT ![c] = "exit"]
  /\ UNCHANGED <<max_ext, fdtab, sdvars, fd, tuvars, callee, shut, last>>
  /\ Quiet
  /\ Silent

\* ---------------------------------------------------------------- pbx_shutdown

\* main.c:15-17, 75-77: SIGHUP arrives, terminate() calls pbx_shutdown.
SIGHUP_handler ==
  /\ sd = "idle"
  /\ sd' = "sweep"
  /\ sd_i' = 1
  /\ UNCHANGED <<max_ext, registry, pbx_mutex, fdtab, sd_busy, pc, fd, tuvars, callee,
                 slot, mode, shut, last>>
  /\ Quiet
  /\ Silent

\* shutdown(f, SHUT_RDWR) acts on the socket descriptor f is open on now.
shutdown(f) ==
  IF f \in Fds /\ fdtab[f] # 0 THEN [shut EXCEPT ![fdtab[f]] = TRUE] ELSE shut

\* pbx.c:45-49: one iteration of the first loop; the registry is read without
\* its lock.
pbx_shutdown_sweep ==
  /\ sd = "sweep"
  /\ shut' = IF registry[sd_i] # NULL THEN shutdown(fd[registry[sd_i]]) ELSE shut
  /\ IF sd_i < max_ext
       THEN sd_i' = sd_i + 1 /\ UNCHANGED sd
       ELSE sd_i' = 1 /\ sd' = "wait"
  /\ UNCHANGED <<max_ext, registry, pbx_mutex, fdtab, sd_busy, pc, fd, tuvars, callee,
                 slot, mode, last>>
  /\ Quiet
  /\ Silent

\* pbx.c:51-65: one iteration of the polling loop's scan; after the last slot
\* either every slot read was empty (Sem_destroy, free(pbx)) or the scan starts
\* again (sleep(0.1) sleeps for 0 seconds).
pbx_shutdown_wait ==
  /\ sd = "wait"
  /\ LET busy == sd_busy \/ registry[sd_i] # NULL
     IN  IF sd_i < max_ext
           THEN sd_i' = sd_i + 1 /\ sd_busy' = busy /\ UNCHANGED sd
           ELSE /\ sd_i' = 1
                /\ sd_busy' = FALSE
                /\ sd' = IF busy THEN "wait" ELSE "freed"
  /\ UNCHANGED <<max_ext, registry, pbx_mutex, fdtab, pc, fd, tuvars, callee,
                 slot, mode, shut, last>>
  /\ Quiet
  /\ Silent

\* The process is gone (exit or a fatal signal): no thread, no memory, no
\* descriptor is left.
Dead(how) ==
  /\ sd' = how
  /\ sd_i' = 0
  /\ sd_busy' = FALSE
  /\ registry' = [i \in 1..MaxExtensions |-> NULL]
  /\ pbx_mutex' = 0
  /\ fdtab' = [f \in Fds |-> 0]
  /\ pc' = [c \in Conns |-> "exit"]
  /\ fd' = [c \in Conns |-> 0]
  /\ state' = [c \in Conns |-> "ON_HOOK"]
  /\ target' = [c \in Conns |-> NULL]
  /\ ref_count' = [c \in Conns |-> 0]
  /\ mutex' = [c \in Conns |-> 0]
  /\ destroyed' = [c \in Conns |-> FALSE]
  /\ callee' = [c \in Conns |-> NULL]
  /\ slot' = [c \in Conns |-> 0]
  /\ mode' = [c \in Conns |-> "svc"]
  /\ shut' = [c \in Conns |-> FALSE]
  /\ last' = [c \in Conns |-> NoLine]
  /\ Quiet
  /\ Silent
  /\ UNCHANGED max_ext

\* main.c:78-79: pbx_shutdown has returned; exit(status) ends every thread.
terminate ==
  /\ sd = "freed"
  /\ Dead("exited")

\* ---------------------------------------------------------------- undefined behaviour

\* The TUs the next step of thread c dereferences.
Deref(c) ==
  CASE pc[c] = "read" /\ CanRead(c) ->
         {c} \cup (IF state[c] = "CONNECTED" THEN {target[c]} ELSE {})
              \cup {registry[i] : i \in {j \in Slots : registry[j] # NULL}}
    [] pc[c] \in {"unregister", "unreg_hangup", "unreg_unref", "unreg_free",
                  "hangup_unref_self", "hangup_free_self", "dial_ref_self"} -> {c}
    [] pc[c] \in {"pickup_peer", "hangup_peer", "hangup_unref_peer",
                  "hangup_free_peer", "chat_peer"} -> {c, target[c]}
    [] pc[c] = "dial_target" ->
         {c, callee[c]} \cup (IF state[c] = "CONNECTED" THEN {target[c]} ELSE {})
    [] pc[c] = "dial_ref_target" -> {callee[c]}
    [] OTHER -> {}

\* The thread's next step uses the registry lock.
UsesPbx(c) ==
  IF pc[c] = "read" THEN CanRead(c)
  ELSE pc[c] \in {"start", "unregister", "unreg_clear", "dial_target",
                  "dial_ref_target"}

\* A step that dereferences NULL ends the process (SIGSEGV).  A step that uses
\* freed storage (a destroyed TU, the freed pbx) is undefined: it may go on as
\* if the storage were intact (the ordinary actions) or end the process here.
Invalid(x) == IF x = NULL THEN TRUE ELSE destroyed[x]

Faulting(c) ==
  IF \E x \in Deref(c) : Invalid(x) THEN TRUE ELSE sd = "freed" /\ UsesPbx(c)

Segfault(c) ==
  /\ Running
  /\ Faulting(c)
  /\ Dead("crashed")

\* ---------------------------------------------------------------- Next

Next ==
  \/ \E c \in Conns : Accept(c)
  \/ \E c \in Conns : pbx_register(c)
  \/ \E c \in Conns : tu_pickup(c)
  \/ \E c \in Conns : tu_pickup_peer(c)
  \/ \E c \in Conns : tu_hangup(c)
  \/ \E c \in Conns : tu_hangup_peer(c)
  \/ \E c \in Conns : tu_hangup_unref_peer(c)
  \/ \E c \in Conns : tu_hangup_free_peer(c)
  \/ \E c \in Conns : tu_hangup_unref_self(c)
  \/ \E c \in Conns : tu_hangup_free_self(c)
  \/ \E c \in Conns : pbx_dial(c)
  \/ \E c \in Conns : tu_dial_target(c)
  \/ \E c \in Conns : tu_dial_ref_self(c)
  \/ \E c \in Conns : tu_dial_ref_target(c)
  \/ \E c \in Conns : tu_chat(c)
  \/ \E c \in Conns : tu_chat_peer(c)
  \/ \E c \in Conns : read_eof(c)
  \/ \E c \in Conns : pbx_unregister(c)
  \/ \E c \in Conns : pbx_unregister_unref(c)
  \/ \E c \in Conns : pbx_unregister_free(c)
  \/ \E c \in Conns : pbx_unregister_clear(c)
  \/ \E c \in Conns : Segfault(c)
  \/ SIGHUP_handler
  \/ pbx_shutdown_sweep
  \/ pbx_shutdown_wait
  \/ terminate

Spec == Init /\ [][Next]_vars

\* ---------------------------------------------------------------- calls among registered TUs

\* Every connection has been accepted and registered (server.c:86-93) and no
\* command has been read yet.
InitCalls ==
  /\ max_ext \in NConn..MaxExtensions
  /\ registry = [i \in 1..MaxExtensions |-> IF i \in Conns THEN i ELSE NULL]
  /\ pbx_mutex = 0
  /\ fdtab = [f \in Fds |-> f]
  /\ sd = "idle"
  /\ sd_i = 0
  /\ sd_busy = FALSE
  /\ pc = [c \in Conns |-> "read"]
  /\ fd = [c \in Conns |-> c]
  /\ state = [c \in Conns |-> "ON_HOOK"]
  /\ target = [c \in Conns |-> NULL]
  /\ ref_count = [c \in Conns |-> 1]
  /\ mutex = [c \in Conns |-> 0]
  /\ destroyed = [c \in Conns |-> FALSE]
  /\ callee = [c \in Conns |-> NULL]
  /\ slot = [c \in Conns |-> 0]
  /\ mode = [c \in Conns |-> "svc"]
  /\ shut = [c \in Conns |-> FALSE]
  /\ last = [c \in Conns |-> <<"ON HOOK", c>>]
  /\ chat = NoChat
  /\ client = [c \in Conns |-> AnyClient]
  /\ wrote = <<>>

\* The commands of the service loop (server.c:136-156), with no connection
\* opened or closed.
NextCalls ==
  \/ \E c \in Conns : tu_pickup(c)
  \/ \E c \in Conns : tu_pickup_peer(c)
  \/ \E c \in Conns : tu_hangup(c)
  \/ \E c \in Conns : tu_hangup_peer(c)
  \/ \E c \in Conns : tu_hangup_unref_peer(c)
  \/ \E c \in Conns : tu_hangup_free_peer(c)
  \/ \E c \in Conns : tu_hangup_unref_self(c)
  \/ \E c \in Conns : tu_hangup_free_self(c)
  \/ \E c \in Conns : pbx_dial(c)
  \/ \E c \in Conns : tu_dial_target(c)
  \/ \E c \in Conns : tu_dial_ref_self(c)
  \/ \E c \in Conns : tu_dial_ref_target(c)
  \/ \E c \in Conns : tu_chat(c)
  \/ \E c \in Conns : tu_chat_peer(c)
  \/ \E c \in Conns : Segfault(c)

CallSpec == InitCalls /\ [][NextCalls]_vars

\* ---------------------------------------------------------------- two dialers, one target

\* The registries in which at least three TUs are registered, each in one slot.
TieRegistries ==
  {r \in [1..MaxExtensions -> Conns \cup {NULL}] :
     /\ \A i \in 1..MaxExtensions : i > max_ext => r[i] = NULL
     /\ \A i, j \in 1..MaxExtensions : (i # j /\ r[i] # NULL) => r[i] # r[j]
     /\ Cardinality({i \in 1..MaxExtensions : r[i] # NULL}) >= 3}

\* Registered TUs a and b have picked up and are about to dial the extension
\* of the registered TU t, which is on hook without a peer; every other TU is
\* on hook and its client sends nothing.
InitTie ==
  /\ max_ext \in 3..MaxExtensions
  /\ registry \in TieRegistries
  /\ pbx_mutex = 0
  /\ sd = "idle"
  /\ sd_i = 0
  /\ sd_busy = FALSE
  /\ LET reg == {registry[i] : i \in 1..MaxExtensions} \ {NULL}
     IN  /\ fdtab = [f \in Fds |-> IF f \in reg THEN f ELSE 0]
         /\ pc = [c \in Conns |-> IF c \in reg THEN "read" ELSE "new"]
         /\ fd = [c \in Conns |-> IF c \in reg THEN c ELSE 0]
         /\ ref_count = [c \in Conns |-> IF c \in reg THEN 1 ELSE 0]
         /\ \E a, b, t \in reg :
              /\ a < b /\ t \notin {a, b}
              /\ state = [c \in Conns |-> IF c \in {a, b} THEN "DIAL_TONE"
                                          ELSE "ON_HOOK"]
              /\ last = [c \in Conns |-> IF c \in {a, b} THEN <<"DIAL TONE", 0>>
                                         ELSE IF c \in reg THEN <<"ON HOOK", c>>
                                         ELSE NoLine]
              /\ client = [c \in Conns |-> IF c \in {a, b} THEN <<<<"dial", t>>>>
                                           ELSE <<>>]
  /\ target = [c \in Conns |-> NULL]
  /\ mutex = [c \in Conns |-> 0]
  /\ destroyed = [c \in Conns |-> FALSE]
  /\ callee = [c \in Conns |-> NULL]
  /\ slot = [c \in Conns |-> 0]
  /\ mode = [c \in Conns |-> "svc"]
  /\ shut = [c \in Conns |-> FALSE]
  /\ chat = NoChat
  /\ wrote = <<>>

\* The dial command, pbx.c:144-168 and tu.c:150-251.
NextTie ==
  \/ \E c \in Conns : pbx_dial(c)
  \/ \E c \in Conns : tu_dial_target(c)
  \/ \E c \in Conns : tu_dial_ref_self(c)
  \/ \E c \in Conns : tu_dial_ref_target(c)

TieSpec == InitTie /\ [][NextTie]_vars

\* ---------------------------------------------------------------- one known dial

\* As InitCalls, but the client of one TU sends pickup and then one dial of a
\* chosen extension; the other clients send anything.
InitDial ==
  /\ max_ext \in NConn..MaxExtensions
  /\ registry = [i \in 1..MaxExtensions |-> IF i \in Conns THEN i ELSE NULL]
  /\ pbx_mutex = 0
  /\ fdtab = [f \in Fds |-> f]
  /\ sd = "idle"
  /\ sd_i = 0
  /\ sd_busy = FALSE
  /\ pc = [c \in Conns |-> "read"]
  /\ fd = [c \in Conns |-> c]
  /\ state = [c \in Conns |-> "ON_HOOK"]
  /\ target = [c \in Conns |-> NULL]
  /\ ref_count = [c \in Conns |-> 1]
  /\ mutex = [c \in Conns |-> 0]
  /\ destroyed = [c \in Conns |-> FALSE]
  /\ callee = [c \in Conns |-> NULL]
  /\ slot = [c \in Conns |-> 0]
  /\ mode = [c \in Conns |-> "svc"]
  /\ shut = [c \in Conns |-> FALSE]
  /\ last = [c \in Conns |-> <<"ON HOOK", c>>]
  /\ chat = NoChat
  /\ wrote = <<>>
  /\ \E d \in Conns, e \in Exts :
       client = [c \in Conns |-> IF c = d THEN <<<<"pickup", 0>>, <<"dial", e>>>>
                                 ELSE AnyClient]

DialSpec == InitDial /\ [][NextCalls]_vars

\* ---------------------------------------------------------------- call round trips

\* A client that waits for a state line before it sends its next command: the
\* entry <<text, -1>> of its script is passed once the last line it received
\* starts with text.
ClientAwait(c) ==
  /\ Running
  /\ client[c] # <<>>
  /\ Head(client[c])[2] = -1
  /\ last[c][1] = Head(client[c])[1]
  /\ client' = [client EXCEPT ![c] = Tail(@)]
  /\ chat' = NoChat
  /\ Silent
  /\ UNCHANGED <<max_ext, registry, pbx_mutex, fdtab, sdvars, pc, fd, tuvars, callee,
                 slot, mode, shut, last>>

\* The last entry <<role, -2>> of a script is never sent: it names the part the
\* client played.
Role(c) == IF client[c] = <<>> THEN "idle" ELSE Head(client[c])[1]

\* The scripts of caller a and callee b: a calls b and hangs up while b rings;
\* a calls, b answers, a hangs up; a calls, b answers, b hangs up.
TripScripts(a, b) ==
  { [c \in Conns |->
       IF c = a THEN <<<<"pickup", 0>>, <<"dial", b>>, <<"hangup", 0>>,
                       <<"hangs up", -2>>>>
       ELSE <<>>],
    [c \in Conns |->
       IF c = a THEN <<<<"pickup", 0>>, <<"dial", b>>, <<"CONNECTED", -1>>,
                       <<"hangup", 0>>, <<"hangs up", -2>>>>
       ELSE IF c = b THEN <<<<"RINGING", -1>>, <<"pickup", 0>>, <<"is hung up on", -2>>>>
       ELSE <<>>],
    [c \in Conns |->
       IF c = a THEN <<<<"pickup", 0>>, <<"dial", b>>, <<"is hung up on", -2>>>>
       ELSE IF c = b THEN <<<<"RINGING", -1>>, <<"pickup", 0>>, <<"CONNECTED", -1>>,
                            <<"hangup", 0>>, <<"hangs up", -2>>>>
       ELSE <<>>] }

\* As InitCalls, with the clients of two TUs following one of the scripts.
InitTrip ==
  /\ max_ext \in NConn..MaxExtensions
  /\ registry = [i \in 1..MaxExtensions |-> IF i \in Conns THEN i ELSE NULL]
  /\ pbx_mutex = 0
  /\ fdtab = [f \in Fds |-> f]
  /\ sd = "idle"
  /\ sd_i = 0
  /\ sd_busy = FALSE
  /\ pc = [c \in Conns |-> "read"]
  /\ fd = [c \in Conns |-> c]
  /\ state = [c \in Conns |-> "ON_HOOK"]
  /\ target = [c \in Conns |-> NULL]
  /\ ref_count = [c \in Conns |-> 1]
  /\ mutex = [c \in Conns |-> 0]
  /\ destroyed = [c \in Conns |-> FALSE]
  /\ callee = [c \in Conns |-> NULL]
  /\ slot = [c \in Conns |-> 0]
  /\ mode = [c \in Conns |-> "svc"]
  /\ shut = [c \in Conns |-> FALSE]
  /\ last = [c \in Conns |-> <<"ON HOOK", c>>]
  /\ chat = NoChat
  /\ wrote = <<>>
  /\ \E a, b \in Conns : a # b /\ client \in TripScripts(a, b)

NextTrip ==
  \/ \E c \in Conns : ClientAwait(c)
  \/ \E c \in Conns : tu_pickup(c)
  \/ \E c \in Conns : tu_pickup_peer(c)
  \/ \E c \in Conns : tu_hangup(c)
  \/ \E c \in Conns : tu_hangup_peer(c)
  \/ \E c \in Conns : tu_hangup_unref_peer(c)
  \/ \E c \in Conns : tu_hangup_free_peer(c)
  \/ \E c \in Conns : tu_hangup_unref_self(c)
  \/ \E c \in Conns : tu_hangup_free_self(c)
  \/ \E c \in Conns : pbx_dial(c)
  \/ \E c \in Conns : tu_dial_target(c)
  \/ \E c \in Conns : tu_dial_ref_self(c)
  \/ \E c \in Conns : tu_dial_ref_target(c)
  \/ \E c \in Conns : Segfault(c)

TripSpec == InitTrip /\ [][NextTrip]_vars

\* ---------------------------------------------------------------- fair scheduling

\* A step thread c takes without a command line from its client: any step
\* inside a command or inside register/unregister, and the end of the service
\* loop once read() can only fail.
ThreadStep(c) ==
  \/ pbx_register(c)
  \/ tu_pickup_peer(c)
  \/ (pc[c] = "unreg_hangup" /\ tu_hangup(c))
  \/ tu_hangup_peer(c)
  \/ tu_hangup_unref_peer(c)
  \/ tu_hangup_free_peer(c)
  \/ tu_hangup_unref_self(c)
  \/ tu_hangup_free_self(c)
  \/ tu_dial_target(c)
  \/ tu_dial_ref_self(c)
  \/ tu_dial_ref_target(c)
  \/ tu_chat_peer(c)
  \/ (~CanRead(c) /\ read_eof(c))
  \/ pbx_unregister(c)
  \/ pbx_unregister_unref(c)
  \/ pbx_unregister_free(c)
  \/ pbx_unregister_clear(c)

\* terminate() on the main thread: pbx_shutdown's loops, then exit.
ShutdownStep == pbx_shutdown_sweep \/ pbx_shutdown_wait \/ terminate

\* Every thread that can run is eventually scheduled.
FairSpec ==
  /\ Init /\ [][Next]_vars
  /\ \A c \in Conns : WF_vars(ThreadStep(c))
  /\ WF_vars(ShutdownStep)

\* ---------------------------------------------------------------- properties

\* The TU of connection a was created and has not been destroyed.
Exists(a) == pc[a] \notin {"new", "start"} /\ ~destroyed[a]

\* Thread x is inside a command, or inside pbx_unregister.
MidCommand(x) == pc[x] \notin {"new", "start", "read", "exit"}

\* No command is mid-execution on TU a: no thread is inside an operation whose
\* TU, peer or dialled target is a.
QuietOn(a) ==
  \A x \in Conns : MidCommand(x) => a \notin {x, target[x], callee[x]}

\* C1 (peer symmetry): whenever no command is mid-execution on TU a or TU b,
\* a's peer is b exactly when b's peer is a.
PeerSymmetry ==
  \A a, b \in Conns :
    (Exists(a) /\ Exists(b) /\ QuietOn(a) /\ QuietOn(b) /\ target[a] = b)
      => target[b] = a

\* The state pairs of two peers: RING_BACK with RINGING, or both CONNECTED.
PeerShapes == {<<"RING_BACK", "RINGING">>, <<"RINGING", "RING_BACK">>,
               <<"CONNECTED", "CONNECTED">>}

\* C2 (state-peer consistency): whenever no command is mid-execution on a TU,
\* it has a peer exactly when its state is RINGING, RING_BACK or CONNECTED, and
\* the states of two peers are RING_BACK/RINGING or CONNECTED/CONNECTED.
StatePeerConsistency ==
  \A a \in Conns :
    (Exists(a) /\ QuietOn(a)) =>
      /\ target[a] # NULL <=> state[a] \in Paired
      /\ (target[a] # NULL /\ Exists(target[a]) /\ QuietOn(target[a]))
           => <<state[a], state[target[a]]>> \in PeerShapes

\* The TU whose lock the next step of thread c does its P() on (0: none).
WaitsFor(c) ==
  CASE pc[c] \in {"pickup_peer", "hangup_peer", "hangup_unref_peer", "chat_peer"}
         -> target[c]
    [] pc[c] \in {"dial_target", "dial_ref_target"} -> callee[c]
    [] pc[c] \in {"unreg_hangup", "unreg_unref", "hangup_unref_self",
                  "dial_ref_self"} -> c
    [] OTHER -> NULL

\* The thread that holds the lock thread c is blocked on (0: c is not blocked).
Blocker(c) ==
  IF pc[c] \in {"start", "unregister"} THEN pbx_mutex
  ELSE IF WaitsFor(c) = NULL THEN 0
  ELSE mutex[WaitsFor(c)]

\* C3 (deadlock freedom): there is never a set of threads each of which is
\* blocked on a lock held by a thread of the set, so that a started pickup,
\* hangup, dial or chat can always return.
DeadlockFreedom ==
  ~ \E S \in (SUBSET Conns) \ {{}} : \A c \in S : Blocker(c) \in S

\* The positions of a service thread from its TU's creation to the return of
\* the last command it read (server.c:86-156).
Serving == {"read", "pickup_peer", "hangup_peer", "hangup_unref_peer",
            "hangup_free_peer", "hangup_unref_self", "hangup_free_self",
            "dial_target", "dial_ref_self", "dial_ref_target", "chat_peer"}

\* C4 (no use after destruction): a TU is destroyed only when it is in no
\* registry slot and is no TU's peer; in particular the count of neither party
\* of a dial/hangup race reaches 0 while its service thread is still serving
\* commands (mode "svc": the hangup was read from the client).
NoUseAfterDestruction ==
  \A x \in Conns :
    (destroyed[x] /\ pc[x] \in Serving /\ mode[x] = "svc") =>
      /\ \A i \in Slots : registry[i] # x
      /\ \A y \in Conns : target[y] # x

\* The references the specification accounts for: the service thread's borrow,
\* the registry slot, and the peer link.
Accounted(x) ==
  (IF pc[x] # "exit" THEN 1 ELSE 0)
  + (IF \E i \in Slots : registry[i] = x THEN 1 ELSE 0)
  + (IF target[x] # NULL THEN 1 ELSE 0)

\* C5 (reference-count accounting): between commands a TU's count is 1 for the
\* service thread's borrow, plus 1 while registered, plus 1 while it has a peer.
RefcountAccounting ==
  \A x \in Conns :
    (Exists(x) /\ QuietOn(x)) => ref_count[x] = Accounted(x)

\* C6 (graceful shutdown liveness): under fair scheduling, once the shutdown
\* trigger has fired, eventually pbx_shutdown returns with the registry empty
\* and every service thread gone (the state terminate() ends the process in).
GracefulShutdown == (sd = "sweep") ~> (sd = "exited")

\* Both dialers' commands have been read and have returned.
TieOver == \A c \in Conns : client[c] = <<>> /\ pc[c] \in {"read", "new"}

\* C7 (dial tie-breaking): when two TUs in DIAL_TONE have both dialled the same
\* on-hook, peerless target, exactly one of them is in RING_BACK and paired
\* with the target, the target is RINGING, and the other dialer is in
\* BUSY_SIGNAL with no peer.
DialTieBreaking ==
  TieOver =>
    \E w, l, t \in Conns :
      /\ w # l /\ t \notin {w, l}
      /\ state[w] = "RING_BACK" /\ target[w] = t
      /\ state[t] = "RINGING" /\ target[t] = w
      /\ state[l] = "BUSY_SIGNAL" /\ target[l] = NULL
      /\ \A o \in Conns \ {w, l, t} : state[o] = "ON_HOOK" /\ target[o] = NULL

\* Both dials have returned, one with RING BACK and one with BUSY SIGNAL.
TieBroken ==
  /\ TieOver
  /\ \E w, l \in Conns : last[w] = <<"RING BACK", 0>> /\ last[l] = <<"BUSY SIGNAL", 0>>

\* No registered TU has extension ext.
NoSuchExtension(ext) ==
  \A i \in Slots : registry[i] # NULL => fd[registry[i]] # ext

\* C11 (dial outcome from DIAL_TONE): a dial of extension ext by a TU in
\* DIAL_TONE gives ERROR when no registered TU has ext and BUSY_SIGNAL when
\* the TU found is the dialer; for another TU it gives RING_BACK/RINGING and
\* makes the two peers when that TU is on hook without a peer, BUSY_SIGNAL
\* otherwise; a dial that formed a pair then raises each count by 1.  No
\* other state, peer or count changes.
DialOutcome ==
  [][\A c \in Conns :
       /\ \A ext \in Exts :
            (/\ client[c] # <<>> /\ Head(client[c]) = <<"dial", ext>>
             /\ state[c] = "DIAL_TONE" /\ pbx_dial(c)) =>
              /\ target' = target /\ ref_count' = ref_count
              /\ IF NoSuchExtension(ext)
                   THEN state' = [state EXCEPT ![c] = "ERROR"] /\ pc'[c] = "read"
                 ELSE IF Lookup(ext) = c
                   THEN state' = [state EXCEPT ![c] = "BUSY_SIGNAL"] /\ pc'[c] = "read"
                 ELSE /\ fd[callee'[c]] = ext /\ pc'[c] = "dial_target"
                      /\ state' = state
       /\ (tu_dial_target(c) /\ state[c] = "DIAL_TONE") =>
            /\ ref_count' = ref_count
            /\ IF state[callee[c]] = "ON_HOOK" /\ target[callee[c]] = NULL
                 THEN /\ state' = [state EXCEPT ![c] = "RING_BACK",
                                                ![callee[c]] = "RINGING"]
                      /\ target' = [target EXCEPT ![c] = callee[c], ![callee[c]] = c]
                      /\ pc'[c] = "dial_ref_self"
                 ELSE /\ state' = [state EXCEPT ![c] = "BUSY_SIGNAL"]
                      /\ target' = target
                      /\ pc'[c] = "read"
       /\ tu_dial_ref_self(c) =>
            /\ ref_count' = [ref_count EXCEPT ![c] = @ + 1]
            /\ state' = state /\ target' = target
       /\ tu_dial_ref_target(c) =>
            /\ ref_count' = [ref_count EXCEPT ![callee[c]] = @ + 1]
            /\ state' = state /\ target' = target /\ pc'[c] = "read"]_vars

\* The known dial has returned with a pair formed and both counts raised.
DialPaired ==
  \E c \in Conns :
    /\ client[c] = <<>> /\ pc[c] = "read"
    /\ state[c] = "RING_BACK" /\ target[c] # NULL
    /\ state[target[c]] = "RINGING" /\ target[target[c]] = c
    /\ ref_count[c] = 2 /\ ref_count[target[c]] = 2

\* The state lines among w that went to connection x, in order.
LinesTo(w, x) ==
  LET ToX(e) == e[1] = x
      Line(e) == e[2]
      sel == SelectSeq(w, ToX)
  IN  [k \in 1..Len(sel) |-> Line(sel[k])]

\* The step in which a pickup, hangup or dial read from c's client takes
\* effect: the states change (or are found not to) and the lines are written.
Effect(c) ==
  \/ tu_pickup(c) /\ pc'[c] = "read"
  \/ tu_pickup_peer(c)
  \/ tu_hangup(c) /\ pc[c] = "read" /\ pc'[c] = "read"
  \/ tu_hangup_peer(c) /\ mode[c] = "svc"
  \/ pbx_dial(c) /\ pc'[c] = "read"
  \/ tu_dial_target(c)

\* Connection p is open on the descriptor its TU writes to.
Connected(p) == Exists(p) /\ Receiver(fd[p]) = p

\* C12 (one notification per command): a pickup, hangup or dial writes exactly
\* one state line to the initiating TU's connection, in every state of that TU
\* (hangup while ON_HOOK included), and the line names the TU's state after
\* the command; another TU's connection gets exactly one state line if that TU
\* changed state and none otherwise.
OneNotification ==
  [][\A c \in Conns :
       Effect(c) =>
         /\ LinesTo(wrote', c) = <<StateLine(state'[c], fd[c], PeerFd(c)')>>
         /\ \A p \in Conns \ {c} :
              Connected(p) =>
                Len(LinesTo(wrote', p)) = IF state'[p] # state[p] THEN 1 ELSE 0]_vars

\* C13 (chat): a chat from a CONNECTED TU writes the line "CHAT <msg>" to the
\* peer's connection and the sender's state line to the sender; a chat from a
\* TU in any other state writes nothing to any other TU and still writes the
\* sender's state line to the sender; in both cases no state, peer or count
\* changes.
ChatDelivery ==
  [][\A c \in Conns :
       /\ tu_chat_peer(c) =>
            /\ Connected(target[c]) => chat'[target[c]] = "CHAT " \o Msg
            /\ LinesTo(wrote', c) = <<StateLine(state[c], fd[c], PeerFd(c))>>
            /\ state' = state /\ target' = target /\ ref_count' = ref_count
       /\ (tu_chat(c) /\ state[c] # "CONNECTED") =>
            /\ chat' = NoChat
            /\ \A p \in Conns \ {c} : LinesTo(wrote', p) = <<>>
            /\ LinesTo(wrote', c) = <<StateLine(state[c], fd[c], PeerFd(c))>>
            /\ state' = state /\ target' = target /\ ref_count' = ref_count]_vars

\* C14 (unregister tears down the call): when pbx_unregister returns success
\* the TU is in no registry slot, has no peer and is no TU's peer; and the
\* hangup it forces moves a peer to ON_HOOK if the peer was RINGING and to
\* DIAL_TONE otherwise.
UnregisterTearsDown ==
  [][\A c \in Conns :
       /\ pbx_unregister_clear(c) =>
            /\ \A i \in Slots : registry'[i] # c
            /\ target'[c] = NULL
            /\ \A y \in Conns : target'[y] # c
       /\ (tu_hangup_peer(c) /\ mode[c] # "svc") =>
            state'[target[c]] = IF state[target[c]] = "RINGING" THEN "ON_HOOK"
                                ELSE "DIAL_TONE"]_vars

\* C15 (every TU is eventually destroyed): when the unregister that follows a
\* connection's service loop completes, the TU's count is 0 and the TU has been
\* destroyed, and no TU is destroyed a second time.
DestroyedAfterUnregister ==
  [][/\ \A c \in Conns :
          pbx_unregister_clear(c) => (ref_count'[c] = 0 /\ destroyed'[c])
     /\ \A c \in Conns :
          /\ (tu_hangup_free_peer(c) /\ Freeing(target[c])) => ~destroyed[target[c]]
          /\ ((tu_hangup_free_self(c) \/ pbx_unregister_free(c)) /\ Freeing(c))
               => ~destroyed[c]]_vars

\* C16 (no duplicate extension): no two TUs in the registry carry the same
\* extension.
NoDuplicateExtension ==
  \A i, j \in Slots :
    (i # j /\ registry[i] # NULL /\ registry[j] # NULL)
      => fd[registry[i]] # fd[registry[j]]

\* C17 (notification monotonicity): between commands, the last state line
\* written to a connected client's connection names the current state of that
\* client's TU.
LastLineCurrent ==
  \A c \in Conns :
    (pc[c] = "read" /\ CanRead(c) /\ Exists(c) /\ QuietOn(c))
      => last[c] = StateLine(state[c], fd[c], PeerFd(c))

\* C18 (notification order): every step that changes the state of a connected
\* client's TU writes the line of the new state to that client, and a step
\* writes no other state line to it: the lines a client receives are the
\* states its TU assumed, in the order of the transitions.
NotificationOrder ==
  [][\A p \in Conns :
       (Connected(p) /\ pc[p] \in Serving /\ pc'[p] \in Serving) =>
         /\ state'[p] # state[p] => LinesTo(wrote', p) # <<>>
         /\ LinesTo(wrote', p) \in
              {<<>>, <<StateLine(state'[p], fd[p], PeerFd(p)')>>}]_vars

\* Every command of the scripts has been sent and has returned.
TripOver == \A c \in Conns : pc[c] = "read" /\ Role(c) \in {"idle", "hangs up", "is hung up on"}

\* C19 (call round trips): after A pickup, A dial B, A hangup both are in
\* ON_HOOK; after A pickup, A dial B, B pickup and a hangup by X in {A, B}, X is
\* in ON_HOOK and the other in DIAL_TONE; in both cases neither TU has a peer
\* and each count is what it was before the dial (1).
RoundTrips ==
  TripOver =>
    \A c \in Conns :
      /\ target[c] = NULL
      /\ ref_count[c] = 1 /\ ~destroyed[c]
      /\ state[c] = IF Role(c) = "is hung up on" THEN "DIAL_TONE" ELSE "ON_HOOK"

\* C20 (pickup): a pickup by a TU in ON_HOOK moves only that TU, to DIAL_TONE;
\* a pickup by a TU in RINGING finds its peer in RING_BACK and moves both to
\* CONNECTED in one step, each connection getting the line CONNECTED <ext>
\* with the other side's extension; a pickup in any other state changes no
\* state and writes the TU's current state line again.  Lines are looked for
\* on the connections that are still open.
PickupContract ==
  [][\A c \in Conns :
       /\ (tu_pickup(c) /\ state[c] = "ON_HOOK") =>
             /\ state' = [state EXCEPT ![c] = "DIAL_TONE"]
             /\ Connected(c) => LinesTo(wrote', c) = << <<"DIAL TONE", 0>> >>
       /\ (tu_pickup(c) /\ state[c] \notin {"ON_HOOK", "RINGING"}) =>
             /\ state' = state
             /\ Connected(c) =>
                   LinesTo(wrote', c) = <<StateLine(state[c], fd[c], PeerFd(c))>>
       /\ tu_pickup_peer(c) =>
             /\ state[c] = "RINGING" /\ state[target[c]] = "RING_BACK"
             /\ state' = [state EXCEPT ![c] = "CONNECTED", ![target[c]] = "CONNECTED"]
             /\ Connected(c) /\ target[c] # c =>
                   LinesTo(wrote', c) = << <<"CONNECTED", fd[target[c]]>> >>
             /\ Connected(target[c]) /\ target[c] # c =>
                   LinesTo(wrote', target[c]) = << <<"CONNECTED", fd[c]>> >>]_vars

\* C21 (busy or failed dial is local): when a registered TU in DIAL_TONE dials
\* an extension no TU has, itself, or a TU that is not on hook or already has a
\* peer, only the dialer's state changes, to ERROR or BUSY_SIGNAL: every other
\* TU keeps its state, every TU its peer and count, and no line is written to
\* any connection but the dialer's.
BusyDialLocal ==
  [][\A c \in Conns :
       LET local == /\ \A x \in Conns \ {c} : state'[x] = state[x]
                    /\ target' = target /\ ref_count' = ref_count
                    /\ \A p \in Conns \ {c} : LinesTo(wrote', p) = <<>>
                    /\ chat' = NoChat
       IN  /\ (/\ pbx_dial(c) /\ state[c] = "DIAL_TONE" /\ pc'[c] = "read"
                /\ \E i \in Slots : registry[i] = c) =>
                 local /\ state'[c] \in {"ERROR", "BUSY_SIGNAL"}
           /\ (/\ tu_dial_target(c) /\ state[c] = "DIAL_TONE"
                /\ (state[callee[c]] # "ON_HOOK" \/ target[callee[c]] # NULL)) =>
                 local /\ state'[c] = "BUSY_SIGNAL" /\ pc'[c] = "read"]_vars

\* A dial has just been answered BUSY SIGNAL because the TU dialled is in a
\* call with a third TU.
BusyDialSeen ==
  \E c \in Conns, t \in Conns :
    /\ t # c
    /\ wrote = << <<c, <<"BUSY SIGNAL", 0>> >> >>
    /\ state[c] = "BUSY_SIGNAL" /\ target[c] = NULL /\ client[c] = <<>>
    /\ target[t] \in Conns \ {c, t} /\ state[t] = "CONNECTED"
    /\ \E j \in Slots : registry[j] = t

\* C22 (registry full): a register that finds every slot occupied leaves the
\* registry as it is, writes no line, closes the connection's descriptor and
\* ends the thread before any command; a register that finds an empty slot
\* puts the TU in the lowest empty slot and the connection receives
\* "ON HOOK <ext>", ext being its descriptor.
RegistryFull ==
  [][\A c \in Conns :
       pbx_register(c) =>
         IF FreeSlots = {}
           THEN /\ registry' = registry
                /\ wrote' = <<>>
                /\ fdtab'[fd[c]] = 0
                /\ pc'[c] = "exit"
           ELSE /\ \E i \in FreeSlots :
                     /\ \A k \in FreeSlots : i <= k
                     /\ registry' = [registry EXCEPT ![i] = c]
                /\ LinesTo(wrote', c) = << <<"ON HOOK", fd[c]>> >>
                /\ pc'[c] = "read"]_vars

\* The descriptor number TU x carries (tu->fd) is open on another connection.
Foreign(x) == IF x = NULL THEN FALSE
              ELSE fd[x] \in Fds /\ fdtab[fd[x]] \notin {0, x}

\* C23 (exclusive socket ownership): no line written and no close issued for a
\* TU - by a command, by the hangup inside pbx_unregister, by the service
\* thread's close or by the TU's destruction - lands on a descriptor that is
\* open on a different connection at that moment.
SocketOwnership ==
  [][\A c \in Conns :
       /\ (tu_hangup(c) /\ state[c] \notin Paired \cup {"ON_HOOK"}) => ~Foreign(c)
       /\ tu_hangup_peer(c) => ~Foreign(c) /\ ~Foreign(target[c])
       /\ tu_pickup_peer(c) => ~Foreign(c) /\ ~Foreign(target[c])
       /\ tu_dial_target(c) =>
             ~Foreign(c) /\ (pc'[c] = "dial_ref_self" => ~Foreign(callee[c]))
       /\ tu_chat_peer(c) => ~Foreign(c) /\ ~Foreign(target[c])
       /\ read_eof(c) => ~Foreign(c)
       /\ ((pbx_unregister_free(c) \/ tu_hangup_free_self(c)) /\ Freeing(c)) =>
             ~Foreign(c)
       /\ (tu_hangup_free_peer(c) /\ Freeing(target[c])) => ~Foreign(target[c])]_vars

\* C24 (shutdown releases the registry safely): in the step in which
\* pbx_shutdown leaves its polling loop (Sem_destroy, free(pbx)) every slot of
\* the registry is empty, no thread holds the registry lock, and no service
\* thread is left that can still call pbx_register, pbx_unregister or
\* pbx_dial: each has returned or was never created.
ShutdownReleasesSafely ==
  [][(pbx_shutdown_wait /\ sd' = "freed") =>
       /\ \A i \in Slots : registry[i] = NULL
       /\ pbx_mutex = 0
       /\ \A c \in Conns : pc[c] \in {"new", "exit"}]_vars

\* Thread c is between the P(pbx) and the V(pbx) of pbx_unregister
\* (pbx.c:114-127) or of pbx_dial (pbx.c:146-162).
InPbx(c) ==
  \/ pc[c] \in {"unreg_hangup", "unreg_unref", "unreg_free", "unreg_clear",
                 "dial_target", "dial_ref_self", "dial_ref_target"}
  \/ /\ pc[c] \in {"hangup_peer", "hangup_unref_peer", "hangup_free_peer",
                     "hangup_unref_self", "hangup_free_self"}
     /\ mode[c] # "svc"

\* C25 (registry lock is outermost): a thread that goes for the registry lock
\* (pbx_register, pbx_unregister, pbx_dial) holds no TU lock, so a thread that
\* holds both took the registry lock first, and it holds both only inside
\* pbx_dial or pbx_unregister; while one thread is inside register, unregister
\* or a dial no other thread is.
RegistryLockOutermost ==
  [][\A c \in Conns :
       /\ (pbx_register(c) \/ pbx_unregister(c) \/ pbx_dial(c)) =>
             /\ \A x \in Conns : mutex[x] # c
             /\ \A d \in Conns \ {c} : ~InPbx(d)
       /\ InPbx(c)' => pbx_mutex' = c
       /\ (pbx_mutex' = c /\ \E x \in Conns : mutex'[x] = c) => InPbx(c)']_vars

\* A dialer holds the registry lock and its own TU's lock and is about to lock
\* the TU it dialled, while another thread is waiting to register or unregister.
BothLocksHeld ==
  \E c \in Conns, d \in Conns :
    /\ pc[c] = "dial_target" /\ pbx_mutex = c /\ mutex[c] = c
    /\ pc[d] \in {"start", "unregister"}

\* C8 (atomic pair transition): of two TUs that are each other's peer it is
\* never the case that exactly one is CONNECTED.
AtomicPair ==
  \A a, b \in Conns :
    (Exists(a) /\ Exists(b) /\ target[a] = b /\ target[b] = a)
      => (state[a] = "CONNECTED" <=> state[b] = "CONNECTED")

\* A step of the dial command of connection c.
DialStep(c) == pbx_dial(c) \/ tu_dial_target(c)

\* C9 (dial is a no-op outside DIAL_TONE): a dial by a TU that is not in
\* DIAL_TONE changes no TU's state and no TU's peer, whatever the extension,
\* and re-emits the caller's current state line.
DialNoOp ==
  [][\A c \in Conns :
       (DialStep(c) /\ state[c] # "DIAL_TONE") =>
         /\ state' = state
         /\ target' = target
         /\ pc'[c] = "read" =>
              last'[c] = StateLine(state[c], fd[c], PeerFd(c))]_vars

\* C10 (ERROR is terminal until hangup): a TU in ERROR leaves ERROR only by its
\* own hangup, which takes it to ON_HOOK.
ErrorTerminal ==
  [][\A c \in Conns :
       (state[c] = "ERROR" /\ state'[c] # "ERROR" /\ sd' \notin {"exited", "crashed"})
         => (tu_hangup(c) /\ state'[c] = "ON_HOOK")]_vars

====
